---- MODULE Spec2Model ----
(***************************************************************************)
(* Kia-Shortcuts: a Flask service (src/main.py) that authenticates against *)
(* the vehicle telematics account at import time and then serves HTTP      *)
(* routes that refresh the held vehicle snapshot and issue commands.       *)
(*                                                                         *)
(* The telematics client (hyundai_kia_connect_api.VehicleManager) is an    *)
(* external library.  Its calls are modelled at the call sites of main.py  *)
(* as fallible operations on the state main.py shares with it: the token,  *)
(* and the dict `vehicles`, whose records the library updates in place,    *)
(* one vehicle after the other, in the dict's iteration order.             *)
(*                                                                         *)
(* Python's None is the empty tuple, a present value x the 1-tuple <<x>>.  *)
(***************************************************************************)
EXTENDS Integers, Sequences, FiniteSets, TLC

VARIABLES
    pc,                 \* position of the process: a startup step, "serving"
                        \* (idle), "responding" (a request was handled) or "exited"
    USERNAME,           \* os.environ.get('KIA_USERNAME')
    PASSWORD,           \* os.environ.get('KIA_PASSWORD')
    PIN,                \* os.environ.get('KIA_PIN')
    SECRET_KEY,         \* os.environ.get("SECRET_KEY")
    VEHICLE_ID,         \* os.environ.get("VEHICLE_ID"), then the resolved target
    token,              \* vehicle_manager's auth token: "none", "valid" or "expired"
    order,              \* vehicle_manager.vehicles: the keys in iteration order
    vehicles,           \* vehicle_manager.vehicles: key -> vehicle record
    last_valid_status,  \* the global Last-Known-Good cache
    request,            \* the request handled by the last step: route and Authorization header
    resp,               \* the response to it: status code and JSON body
    calls,              \* calls made on vehicle_manager by startup / by the last request
    error,              \* what ended the process (None while it runs)
    handlers            \* the /get_vehicle_status handlers that run in parallel
                        \* threads: each one's position and local variables
                        \* (<<>> where requests are taken one at a time)

vars == <<pc, USERNAME, PASSWORD, PIN, SECRET_KEY, VEHICLE_ID, token, order,
          vehicles, last_valid_status, request, resp, calls, error, handlers>>

None == <<>>
Some(x) == <<x>>

----------------------------------------------------------------------------
(* Bounds of the model: the values the environment and the upstream        *)
(* service can supply.                                                     *)

\* driving ranges reported upstream: absent, -1, 0 and 1..MaxRange
MaxRange == 2

Ranges == {None} \cup {Some(r) : r \in -1..MaxRange}
Batteries == {Some(79), Some(80)}
Models == {"EV6", "EV9"}
NotCharging == [charging |-> FALSE, minutes |-> None]
Charging == [charging |-> TRUE, minutes |-> Some(30)]

ChargeStates == {NotCharging, Charging}

\* a vehicle identifier that is in no account
UnknownId == "v9"

\* the accounts the upstream service may hold: its vehicles in listing order
Accounts == {<<>>, <<"v1">>, <<"v2", "v1">>}

\* values of the environment variables
CredentialValues == {None, Some(""), Some("set")}
SecretValues == {None, Some(""), Some("s3cret")}
VehicleIdValues == {None, Some(""), Some("v1"), Some(UnknownId)}

\* values of the Authorization header of a request
Headers == {None, Some("wrong"), Some("s3cret")}

\* str(e) of the failures the library raises
Failures == {"AuthenticationError", "UpstreamError"}

Routes == {"/list_vehicles", "/start_climate", "/stop_climate", "/unlock_car",
           "/lock_car", "/get_vehicle_status", "/debug_vehicle", "/battery_status"}

----------------------------------------------------------------------------
(* Vehicle records, as main.py reads them (the dict key is the vehicle id). *)

VehicleRecord(battery, range, model, charge) ==
    [model |-> model,
     ev_battery_percentage |-> battery,
     ev_driving_range |-> range,
     ev_battery_is_charging |-> charge.charging,
     ev_estimated_current_charge_duration |-> charge.minutes]

\* what an update of a vehicle can leave in its record: every combination
\* of the values above when the account holds one vehicle; with n > 1
\* vehicles every range, and one reading that differs in the other fields
Readings(n) ==
    IF n <= 1
    THEN {VehicleRecord(b, r, m, c) :
            b \in Batteries, r \in Ranges, m \in Models, c \in ChargeStates}
    ELSE {VehicleRecord(Some(80), r, "EV6", NotCharging) : r \in Ranges}
         \cup {VehicleRecord(Some(79), Some(0), "EV9", Charging)}

\* str(KeyError(id)), the text of vehicle_manager.vehicles[id] on a missing key
KeyErrorText(id) ==
    CASE id = "v1" -> "'v1'"
      [] id = "v2" -> "'v2'"
      [] id = "v9" -> "'v9'"
      [] OTHER -> "''"

Range(f) == {f[i] : i \in DOMAIN f}

\* before the first request
NoRequest == [route |-> "", header |-> None]
NoResponse == [code |-> 0, body |-> None]

\* a call made on vehicle_manager: the method, the token held when it is
\* made, whether it returned (TRUE) or raised (FALSE), and str(e) if it raised
Call(op, held, ok, err) == [op |-> op, token |-> held, ok |-> ok, err |-> err]

----------------------------------------------------------------------------
(* The library's refresh of the held snapshot.  Both                       *)
(* update_all_vehicles_with_cached_state and                               *)
(* check_and_force_update_vehicles walk vehicle_manager.vehicles in order  *)
(* and overwrite each record in place; a failure at the k-th vehicle       *)
(* leaves the k-1 records before it already overwritten.  With no vehicle  *)
(* held the walk is empty and returns.  An expired token is rejected at    *)
(* the first vehicle.                                                      *)

Keys == Range(order)

Before(k) == {order[i] : i \in 1..(k-1)}

\* the snapshot after the walk wrote `fresh` over the records it reached
Overwritten(fresh) ==
    [id \in Keys |-> IF id \in DOMAIN fresh THEN fresh[id] ELSE vehicles[id]]

RefreshSucceeds ==
    IF order = <<>> THEN {[ok |-> TRUE, vehicles |-> vehicles, err |-> ""]}
    ELSE IF token # "valid" THEN {}
    ELSE {[ok |-> TRUE, vehicles |-> fresh, err |-> ""] : fresh \in [Keys -> Readings(Len(order))]}

RefreshFails ==
    {[ok |-> FALSE, vehicles |-> Overwritten(fresh), err |-> e] :
        fresh \in UNION {[Before(k) -> Readings(Len(order))] :
                           k \in IF token = "valid" THEN 1..Len(order)
                                 ELSE 1..(IF order = <<>> THEN 0 ELSE 1)},
        e \in Failures}

RefreshResults == RefreshSucceeds \cup RefreshFails

\* a command sent for vehicle id: vehicle_manager.<op>(VEHICLE_ID, ...)
CommandResults(id) ==
    IF id \notin Keys THEN {[ok |-> FALSE, result |-> "", err |-> KeyErrorText(id)]}
    ELSE (IF token = "valid" THEN {[ok |-> TRUE, result |-> "action-id", err |-> ""]}
          ELSE {})
         \cup {[ok |-> FALSE, result |-> "", err |-> e] : e \in Failures}

----------------------------------------------------------------------------
(* Startup: the module-level code of main.py, lines 9-58 and 316-318.      *)

\* line 13
CredentialsMissing(username, password, pin) ==
    username = None \/ password = None \/ pin = None

\* mutant: the secret is tested like the credentials of line 13, `is None`
SecretAbsent(key) == key = None

\* line 48: `not SECRET_KEY`
SecretMissing(key) == key = None \/ key = Some("")

\* line 53: `not VEHICLE_ID`
VehicleIdMissing(id) == id = None \/ id = Some("")

\* mutant: the vehicle listed last is selected
LastVehicle(keys) == keys[Len(keys)]

\* line 57: next(iter(vehicle_manager.vehicles.keys()))
FirstVehicle(keys) == keys[1]

\* the upstream service accepts a login only with a username and a password
\* (the pin is not part of the login)
LoginAccepted == USERNAME # Some("") /\ PASSWORD # Some("")

Exit(why) ==
    /\ pc' = "exited"
    /\ error' = Some(why)

Init ==
    /\ pc = "credentials"
    /\ USERNAME \in CredentialValues
    /\ PASSWORD \in CredentialValues
    /\ PIN \in CredentialValues
    /\ SECRET_KEY \in SecretValues
    /\ VEHICLE_ID \in VehicleIdValues
    /\ token = "none"
    /\ order = <<>>
    /\ vehicles = <<>>
    /\ last_valid_status =
          [battery_percentage |-> None, range_miles |-> None, model |-> None]
    /\ request = NoRequest
    /\ resp = NoResponse
    /\ calls = <<>>
    /\ error = None
    /\ handlers = <<>>

\* lines 9-23: read the credentials, construct the VehicleManager
LoadCredentials ==
    /\ pc = "credentials"
    /\ IF CredentialsMissing(USERNAME, PASSWORD, PIN)
          THEN Exit("ValueError: Missing credentials! Check your environment variables.")
          ELSE pc' = "connect" /\ error' = error
    /\ UNCHANGED <<handlers, USERNAME, PASSWORD, PIN, SECRET_KEY, VEHICLE_ID, token, order,
                   vehicles, last_valid_status, request, resp, calls>>

\* lines 26-43: check_and_refresh_token(), which logs in and lists the
\* account's vehicles, then update_all_vehicles_with_cached_state(); any
\* exception ends the process with exit(1)
Connect ==
    /\ pc = "connect"
    /\ \/ /\ \E e \in Failures :
                calls' = Append(calls, Call("check_and_refresh_token", token, FALSE, e))
          /\ Exit("exit(1)")
          /\ UNCHANGED <<token, order, vehicles>>
       \/ /\ LoginAccepted
          /\ \E account \in Accounts :
                /\ token' = "valid"
                /\ \/ /\ order' = account
                      /\ vehicles' \in [Range(account) -> Readings(Len(account))]
                      /\ calls' = calls \o
                            <<Call("check_and_refresh_token", token, TRUE, ""),
                              Call("update_all_vehicles_with_cached_state",
                                   "valid", TRUE, "")>>
                      /\ pc' = "secret"
                      /\ error' = error
                   \/ /\ account # <<>>
                      /\ UNCHANGED <<order, vehicles>>
                      /\ \E e \in Failures :
                            calls' = calls \o
                               <<Call("check_and_refresh_token", token, TRUE, ""),
                                 Call("update_all_vehicles_with_cached_state",
                                      "valid", FALSE, e)>>
                      /\ Exit("exit(1)")
    /\ UNCHANGED <<handlers, USERNAME, PASSWORD, PIN, SECRET_KEY, VEHICLE_ID,
                   last_valid_status, request, resp>>

\* lines 47-49
LoadSecret ==
    /\ pc = "secret"
    /\ IF SecretMissing(SECRET_KEY)
          THEN Exit("ValueError: Missing SECRET_KEY environment variable.")
          ELSE pc' = "vehicle_id" /\ error' = error
    /\ UNCHANGED <<handlers, USERNAME, PASSWORD, PIN, SECRET_KEY, VEHICLE_ID, token, order,
                   vehicles, last_valid_status, request, resp, calls>>

\* lines 52-58
ResolveVehicle ==
    /\ pc = "vehicle_id"
    /\ IF VehicleIdMissing(VEHICLE_ID)
          THEN IF order = <<>>
                  THEN /\ Exit("ValueError: No vehicles found in the account.")
                       /\ VEHICLE_ID' = VEHICLE_ID
                  ELSE /\ VEHICLE_ID' = Some(FirstVehicle(order))
                       /\ pc' = "run"
                       /\ error' = error
          ELSE /\ VEHICLE_ID' = VEHICLE_ID
               /\ pc' = "run"
               /\ error' = error
    /\ UNCHANGED <<handlers, USERNAME, PASSWORD, PIN, SECRET_KEY, token, order, vehicles,
                   last_valid_status, request, resp, calls>>

\* lines 316-318: app.run(); from here on requests are handled
Run ==
    /\ pc = "run"
    /\ pc' = "serving"
    /\ calls' = <<>>
    /\ UNCHANGED <<handlers, USERNAME, PASSWORD, PIN, SECRET_KEY, VEHICLE_ID, token, order,
                   vehicles, last_valid_status, request, resp, error>>

\* the token obtained at startup is time-limited: its validity runs out
TokenExpires ==
    /\ pc = "serving"
    /\ token = "valid"
    /\ token' = "expired"
    /\ UNCHANGED <<pc, handlers, USERNAME, PASSWORD, PIN, SECRET_KEY, VEHICLE_ID, order,
                   vehicles, last_valid_status, request, resp, calls, error>>

----------------------------------------------------------------------------
(* The Status Reconciler: lines 233-256 of get_vehicle_status.             *)

\* mutant: any truthy range is cached, `if range_miles:`
IsTruthyRange(range_miles) ==
    /\ range_miles # None
    /\ range_miles # Some(0)

\* line 240: `range_miles and range_miles > 0`
IsValidRange(range_miles) ==
    /\ range_miles # None
    /\ range_miles # Some(0)
    /\ range_miles[1] > 0

\* mutant: the cache is filled by the first positive reading only
CacheAfterFirstOnly(vehicle, cache) ==
    IF vehicle.ev_driving_range # None /\ vehicle.ev_driving_range[1] > 0
       /\ cache.range_miles = None
    THEN [battery_percentage |-> vehicle.ev_battery_percentage,
          range_miles |-> vehicle.ev_driving_range,
          model |-> Some(vehicle.model)]
    ELSE cache

\* mutant: the cached range is added to, `+=` for `=`
CacheAfterAccumulates(vehicle, cache) ==
    IF IsValidRange(vehicle.ev_driving_range)
    THEN [battery_percentage |-> vehicle.ev_battery_percentage,
          range_miles |->
             IF cache.range_miles = None THEN vehicle.ev_driving_range
             ELSE Some(cache.range_miles[1] + vehicle.ev_driving_range[1]),
          model |-> Some(vehicle.model)]
    ELSE cache

\* mutant: a reading without a positive range clears the cache
CacheAfterResets(vehicle, cache) ==
    IF IsValidRange(vehicle.ev_driving_range)
    THEN [battery_percentage |-> vehicle.ev_battery_percentage,
          range_miles |-> vehicle.ev_driving_range,
          model |-> Some(vehicle.model)]
    ELSE [battery_percentage |-> None, range_miles |-> None, model |-> None]

\* lines 239-245: the cache after the record was read
CacheAfter(vehicle, cache) ==
    IF IsValidRange(vehicle.ev_driving_range)
    THEN [battery_percentage |-> vehicle.ev_battery_percentage,
          range_miles |-> vehicle.ev_driving_range,
          model |-> Some(vehicle.model)]
    ELSE cache

\* mutant: a missing cached range is reported as 0,
\* `last_valid_status.get("range_miles") or 0`
ReportedRangeOrZero(range_miles, cache) ==
    IF range_miles = Some(0)
    THEN (IF cache.range_miles = None THEN Some(0) ELSE cache.range_miles)
    ELSE range_miles

\* mutant: any falsy range is substituted, `if not range_miles`
ReportedRangeFalsy(range_miles, cache) ==
    IF range_miles \in {None, Some(0)} THEN cache.range_miles ELSE range_miles

\* lines 247-248: the range reported, given the cache after the write
ReportedRange(range_miles, cache) ==
    IF range_miles = Some(0) THEN cache.range_miles ELSE range_miles

\* mutant: on a zero range the whole cached status is reported
StatusPayloadCached(vehicle, cache) ==
    [battery_percentage |->
        IF vehicle.ev_driving_range = Some(0) /\ cache.range_miles # None
        THEN cache.battery_percentage ELSE vehicle.ev_battery_percentage,
     range_miles |->
        IF vehicle.ev_driving_range = Some(0)
        THEN cache.range_miles ELSE vehicle.ev_driving_range,
     model |->
        IF vehicle.ev_driving_range = Some(0) /\ cache.range_miles # None
        THEN cache.model[1] ELSE vehicle.model,
     charging |-> vehicle.ev_battery_is_charging,
     charge_minutes |-> vehicle.ev_estimated_current_charge_duration]

\* lines 250-256
StatusPayload(vehicle, cache) ==
    [battery_percentage |-> vehicle.ev_battery_percentage,
     range_miles |-> ReportedRange(vehicle.ev_driving_range, cache),
     model |-> vehicle.model,
     charging |-> vehicle.ev_battery_is_charging,
     charge_minutes |-> vehicle.ev_estimated_current_charge_duration]

----------------------------------------------------------------------------
(* The request handlers.  Each action is one request, from the             *)
(* Authorization check to the response.                                    *)

\* `request.headers.get("Authorization") != SECRET_KEY`
Unauthorized(header) == header # SECRET_KEY

\* `return jsonify({"error": "Unauthorized"}), 403`
Forbidden == [code |-> 403, body |-> [error |-> "Unauthorized"]]

\* mutant: the failure's text is replaced by a fixed message
ErrorResponseGeneric(e) == [code |-> 500, body |-> [error |-> "Internal Server Error"]]

\* `except Exception as e: return jsonify({"error": str(e)}), 500`
ErrorResponse(e) == [code |-> 500, body |-> [error |-> e]]

NotFound(what) == [code |-> 404, body |-> [error |-> what]]

Ok(body) == [code |-> 200, body |-> body]

Reply(route, header, response, made) ==
    /\ request' = [route |-> route, header |-> header]
    /\ resp' = response
    /\ calls' = made

\* a request arrives at the idle server and is handled to its response
Serving ==
    /\ pc = "serving"
    /\ pc' = "responding"
    /\ UNCHANGED <<handlers, USERNAME, PASSWORD, PIN, SECRET_KEY, VEHICLE_ID, token,
                   order, error>>

\* mutant: each request takes the first vehicle of the snapshot it holds
TargetFirstHeld == IF order # <<>> THEN order[1] ELSE VEHICLE_ID[1]

\* mutant: each request takes the last vehicle of the snapshot it holds
TargetLastHeld == IF order # <<>> THEN order[Len(order)] ELSE VEHICLE_ID[1]

Target == VEHICLE_ID[1]

\* lines 66-68
root ==
    /\ Serving
    /\ \E header \in Headers :
          Reply("/", header,
                Ok([status |-> "Welcome to the Kia Vehicle Control API"]), <<>>)
    /\ UNCHANGED <<vehicles, last_valid_status>>

\* lines 91-101: name and year are fixed per vehicle and left out
VehicleList(held) ==
    [i \in 1..Len(order) |-> [id |-> order[i], model |-> held[order[i]].model]]

\* lines 71-111
list_vehicles ==
    /\ Serving
    /\ \E header \in Headers :
          IF Unauthorized(header)
          THEN /\ Reply("/list_vehicles", header, Forbidden, <<>>)
               /\ UNCHANGED vehicles
          ELSE \E r \in RefreshResults :
                  /\ vehicles' = r.vehicles
                  /\ Reply("/list_vehicles", header,
                           IF ~r.ok THEN ErrorResponse(r.err)
                           ELSE IF order = <<>> THEN NotFound("No vehicles found")
                           ELSE Ok([status |-> "Success",
                                    vehicles |-> VehicleList(r.vehicles)]),
                           <<Call("update_all_vehicles_with_cached_state", token, r.ok, r.err)>>)
    /\ UNCHANGED last_valid_status

\* mutant: a failed refresh is tried once more before the handler gives up
CommandRetries(route, op, done) ==
    /\ Serving
    /\ \E header \in Headers :
          IF Unauthorized(header)
          THEN /\ Reply(route, header, Forbidden, <<>>)
               /\ UNCHANGED vehicles
          ELSE \E r \in RefreshResults :
                  /\ vehicles' = r.vehicles
                  /\ IF ~r.ok
                     THEN Reply(route, header, ErrorResponse(r.err),
                                <<Call("update_all_vehicles_with_cached_state",
                                       token, FALSE, r.err),
                                  Call("update_all_vehicles_with_cached_state",
                                       token, FALSE, r.err)>>)
                     ELSE \E c \in CommandResults(Target) :
                             Reply(route, header,
                                   IF c.ok THEN Ok([status |-> done, result |-> c.result])
                                   ELSE ErrorResponse(c.err),
                                   <<Call("update_all_vehicles_with_cached_state",
                                          token, TRUE, ""),
                                     Call(op, token, c.ok, c.err)>>)
    /\ UNCHANGED last_valid_status

\* the command handlers, lines 114-209: refresh, then one command for the
\* target vehicle
Command(route, op, done) ==
    /\ Serving
    /\ \E header \in Headers :
          IF Unauthorized(header)
          THEN /\ Reply(route, header, Forbidden, <<>>)
               /\ UNCHANGED vehicles
          ELSE \E r \in RefreshResults :
                  /\ vehicles' = r.vehicles
                  /\ IF ~r.ok
                     THEN Reply(route, header, ErrorResponse(r.err),
                                <<Call("update_all_vehicles_with_cached_state",
                                       token, FALSE, r.err)>>)
                     ELSE \E c \in CommandResults(Target) :
                             Reply(route, header,
                                   IF c.ok THEN Ok([status |-> done, result |-> c.result])
                                   ELSE ErrorResponse(c.err),
                                   <<Call("update_all_vehicles_with_cached_state",
                                          token, TRUE, ""),
                                     Call(op, token, c.ok, c.err)>>)
    /\ UNCHANGED last_valid_status

\* lines 114-143
start_climate == Command("/start_climate", "start_climate", "Climate started")

\* lines 146-165
stop_climate == Command("/stop_climate", "stop_climate", "Climate stopped")

\* lines 168-187
unlock_car == Command("/unlock_car", "unlock", "Car unlocked")

\* lines 190-209
lock_car == Command("/lock_car", "lock", "Car locked")

\* mutant: the record's attributes are read before the refresh is made
get_vehicle_status_stale ==
    /\ Serving
    /\ \E header \in Headers :
          IF Unauthorized(header)
          THEN /\ Reply("/get_vehicle_status", header, Forbidden, <<>>)
               /\ UNCHANGED <<vehicles, last_valid_status>>
          ELSE \E r \in RefreshResults :
                  /\ vehicles' = r.vehicles
                  /\ calls' = <<Call("check_and_force_update_vehicles",
                                     token, r.ok, r.err)>>
                  /\ request' = [route |-> "/get_vehicle_status", header |-> header]
                  /\ IF ~r.ok
                     THEN /\ resp' = ErrorResponse(r.err)
                          /\ UNCHANGED last_valid_status
                     ELSE IF Target \notin Keys
                     THEN /\ resp' = ErrorResponse(KeyErrorText(Target))
                          /\ UNCHANGED last_valid_status
                     ELSE /\ last_valid_status' =
                                CacheAfter(vehicles[Target], last_valid_status)
                          /\ resp' = Ok(StatusPayload(vehicles[Target],
                                                      last_valid_status'))

\* lines 221-259
get_vehicle_status ==
    /\ Serving
    /\ \E header \in Headers :
          IF Unauthorized(header)
          THEN /\ Reply("/get_vehicle_status", header, Forbidden, <<>>)
               /\ UNCHANGED <<vehicles, last_valid_status>>
          ELSE \E r \in RefreshResults :
                  /\ vehicles' = r.vehicles
                  /\ calls' = <<Call("check_and_force_update_vehicles",
                                     token, r.ok, r.err)>>
                  /\ request' = [route |-> "/get_vehicle_status", header |-> header]
                  /\ IF ~r.ok
                     THEN /\ resp' = ErrorResponse(r.err)
                          /\ UNCHANGED last_valid_status
                     ELSE IF Target \notin Keys
                     THEN /\ resp' = ErrorResponse(KeyErrorText(Target))
                          /\ UNCHANGED last_valid_status
                     ELSE /\ last_valid_status' =
                                CacheAfter(r.vehicles[Target], last_valid_status)
                          /\ resp' = Ok(StatusPayload(r.vehicles[Target],
                                                      last_valid_status'))

\* lines 263-272: no Authorization check; the record is looked up first
debug_vehicle ==
    /\ Serving
    /\ \E header \in Headers :
          IF Target \notin Keys
          THEN /\ Reply("/debug_vehicle", header,
                        ErrorResponse(KeyErrorText(Target)), <<>>)
               /\ UNCHANGED vehicles
          ELSE \E r \in RefreshResults :
                  /\ vehicles' = r.vehicles
                  /\ Reply("/debug_vehicle", header,
                           IF r.ok THEN Ok([attributes |-> "dir(vehicle)"])
                           ELSE ErrorResponse(r.err),
                           <<Call("check_and_force_update_vehicles", token, r.ok, r.err)>>)
    /\ UNCHANGED last_valid_status

\* lines 275-299
battery_status ==
    /\ Serving
    /\ \E header \in Headers :
          IF Unauthorized(header)
          THEN /\ Reply("/battery_status", header, Forbidden, <<>>)
               /\ UNCHANGED vehicles
          ELSE \E r \in RefreshResults :
                  /\ vehicles' = r.vehicles
                  /\ Reply("/battery_status", header,
                           IF ~r.ok THEN ErrorResponse(r.err)
                           ELSE IF Target \notin Keys THEN NotFound("Vehicle not found")
                           ELSE Ok([status |-> "Success",
                                    battery_percentage |->
                                        r.vehicles[Target].ev_battery_percentage]),
                           <<Call("update_all_vehicles_with_cached_state", token, r.ok, r.err)>>)
    /\ UNCHANGED last_valid_status

\* lines 302-311
climate_options_debug ==
    /\ Serving
    /\ \E header \in Headers :
          Reply("/climate_options_debug", header,
                Ok([available_attrs |-> "dir(opts)", doc |-> "__doc__"]), <<>>)
    /\ UNCHANGED <<vehicles, last_valid_status>>

\* the response is sent; the server waits for the next request
SendResponse ==
    /\ pc = "responding"
    /\ pc' = "serving"
    /\ request' = NoRequest
    /\ resp' = NoResponse
    /\ calls' = <<>>
    /\ UNCHANGED <<handlers, USERNAME, PASSWORD, PIN, SECRET_KEY, VEHICLE_ID, token, order,
                   vehicles, last_valid_status, error>>

Next ==
    \/ LoadCredentials
    \/ Connect
    \/ LoadSecret
    \/ ResolveVehicle
    \/ Run
    \/ TokenExpires
    \/ root
    \/ list_vehicles
    \/ start_climate
    \/ stop_climate
    \/ unlock_car
    \/ lock_car
    \/ get_vehicle_status
    \/ debug_vehicle
    \/ battery_status
    \/ climate_options_debug
    \/ SendResponse

Spec == Init /\ [][Next]_vars

\* lines 215-219: the cache as the module creates it
EmptyStatus == [battery_percentage |-> None, range_miles |-> None, model |-> None]

----------------------------------------------------------------------------
(* /get_vehicle_status handlers in parallel threads.  app.run (line 318)  *)
(* serves each request in a thread of its own; the handlers share          *)
(* vehicle_manager.vehicles and last_valid_status and take no lock.  Each  *)
(* action below is one statement of lines 221-259 run by one handler; a    *)
(* refresh overwrites the target's record as a whole.                      *)

Threads == {"h1", "h2"}

\* what a forced refresh can leave in the target's record
ConcurrentReadings ==
    {VehicleRecord(Some(79), Some(1), "EV9", Charging),
     VehicleRecord(Some(79), Some(0), "EV9", Charging),
     VehicleRecord(Some(80), Some(MaxRange), "EV6", NotCharging),
     VehicleRecord(Some(80), Some(-1), "EV6", NotCharging)}

\* a thread with no request: no local variable is bound; read_from is the
\* set of record states the handler read its battery, model and range from
Idle ==
    [at |-> "idle", battery |-> None, model |-> None, range_miles |-> None,
     charging |-> None, charge_minutes |-> None, read_from |-> {},
     resp |-> NoResponse]

\* the record of lines 233-235 as the handler's local variables hold it
Locals(h) ==
    [model |-> h.model[1],
     ev_battery_percentage |-> h.battery,
     ev_driving_range |-> h.range_miles,
     ev_battery_is_charging |-> h.charging,
     ev_estimated_current_charge_duration |-> h.charge_minutes]

\* a server that came up on the one vehicle of its account
InitConcurrent ==
    /\ pc = "serving"
    /\ USERNAME = Some("set")
    /\ PASSWORD = Some("set")
    /\ PIN = Some("set")
    /\ SECRET_KEY = Some("s3cret")
    /\ VEHICLE_ID = Some("v1")
    /\ token = "valid"
    /\ order = <<"v1">>
    /\ vehicles \in [{"v1"} -> ConcurrentReadings]
    /\ last_valid_status = EmptyStatus
    /\ request = NoRequest
    /\ resp = NoResponse
    /\ calls = <<>>
    /\ error = None
    /\ handlers = [t \in Threads |-> Idle]

Shared ==
    UNCHANGED <<pc, USERNAME, PASSWORD, PIN, SECRET_KEY, VEHICLE_ID, token,
                order, request, resp, calls, error>>

\* handler t moves from one statement to another with its locals changed
Step(t, from, to, changed) ==
    /\ handlers[t].at = from
    /\ handlers' = [handlers EXCEPT ![t] = [changed EXCEPT !.at = to]]
    /\ Shared

\* lines 225-227: a request arrives; the Authorization check
Arrive(t) ==
    /\ \E header \in Headers :
          IF Unauthorized(header)
          THEN Step(t, "idle", "done", [handlers[t] EXCEPT !.resp = Forbidden])
          ELSE Step(t, "idle", "refresh", handlers[t])
    /\ UNCHANGED <<vehicles, last_valid_status>>

\* line 230: check_and_force_update_vehicles(force_refresh_interval=0)
ForceRefresh(t) ==
    /\ \/ /\ vehicles' \in [Keys -> ConcurrentReadings]
          /\ Step(t, "refresh", "battery", handlers[t])
       \/ /\ \E e \in Failures :
                Step(t, "refresh", "done",
                     [handlers[t] EXCEPT !.resp = ErrorResponse(e)])
          /\ UNCHANGED vehicles
    /\ UNCHANGED last_valid_status

\* lines 231, 233: battery = vehicle.ev_battery_percentage
ReadBattery(t) ==
    /\ Step(t, "battery", "model",
            [handlers[t] EXCEPT !.battery = vehicles[Target].ev_battery_percentage,
                                !.read_from = {vehicles[Target]}])
    /\ UNCHANGED <<vehicles, last_valid_status>>

\* line 234: model = vehicle.model
ReadModel(t) ==
    /\ Step(t, "model", "range",
            [handlers[t] EXCEPT !.model = Some(vehicles[Target].model),
                                !.read_from = @ \cup {vehicles[Target]}])
    /\ UNCHANGED <<vehicles, last_valid_status>>

\* line 235: range_miles = vehicle.ev_driving_range
ReadRange(t) ==
    /\ Step(t, "range", "charging",
            [handlers[t] EXCEPT !.range_miles = vehicles[Target].ev_driving_range,
                                !.read_from = @ \cup {vehicles[Target]}])
    /\ UNCHANGED <<vehicles, last_valid_status>>

\* lines 236-237: charging and charge_minutes
ReadCharging(t) ==
    /\ Step(t, "charging", "cache",
            [handlers[t] EXCEPT
                !.charging = vehicles[Target].ev_battery_is_charging,
                !.charge_minutes =
                    vehicles[Target].ev_estimated_current_charge_duration])
    /\ UNCHANGED <<vehicles, last_valid_status>>

\* lines 239-245: the cache write, from the local variables
WriteCache(t) ==
    /\ Step(t, "cache", "substitute", handlers[t])
    /\ last_valid_status' = CacheAfter(Locals(handlers[t]), last_valid_status)
    /\ UNCHANGED vehicles

\* lines 247-248: a zero range is replaced by the range the cache holds now
SubstituteRange(t) ==
    /\ Step(t, "substitute", "respond",
            [handlers[t] EXCEPT
                !.range_miles = ReportedRange(@, last_valid_status)])
    /\ UNCHANGED <<vehicles, last_valid_status>>

\* lines 250-256: the payload, from the local variables
Respond(t) ==
    /\ Step(t, "respond", "done",
            [handlers[t] EXCEPT
                !.resp = Ok([battery_percentage |-> handlers[t].battery,
                             range_miles |-> handlers[t].range_miles,
                             model |-> handlers[t].model[1],
                             charging |-> handlers[t].charging,
                             charge_minutes |-> handlers[t].charge_minutes])])
    /\ UNCHANGED <<vehicles, last_valid_status>>

\* the response is sent and the thread ends
Return(t) ==
    /\ Step(t, "done", "idle", Idle)
    /\ UNCHANGED <<vehicles, last_valid_status>>

NextConcurrent ==
    \/ \E t \in Threads : Arrive(t)
    \/ \E t \in Threads : ForceRefresh(t)
    \/ \E t \in Threads : ReadBattery(t)
    \/ \E t \in Threads : ReadModel(t)
    \/ \E t \in Threads : ReadRange(t)
    \/ \E t \in Threads : ReadCharging(t)
    \/ \E t \in Threads : WriteCache(t)
    \/ \E t \in Threads : SubstituteRange(t)
    \/ \E t \in Threads : Respond(t)
    \/ \E t \in Threads : Return(t)

SpecConcurrent == InitConcurrent /\ [][NextConcurrent]_vars

----------------------------------------------------------------------------
(* Properties.                                                             *)

Positive(range_miles) == range_miles # None /\ range_miles[1] > 0

\* this step handles an authorized /get_vehicle_status request whose forced
\* refresh returned and whose target vehicle is in the snapshot
StatusStep ==
    /\ pc = "serving"
    /\ pc' = "responding"
    /\ request'.route = "/get_vehicle_status"
    /\ request'.header = SECRET_KEY
    /\ calls'[1].ok
    /\ Target \in Keys

\* the state after such a step
StatusDone ==
    /\ pc = "responding"
    /\ request.route = "/get_vehicle_status"
    /\ request.header = SECRET_KEY
    /\ calls[1].ok
    /\ Target \in Keys

\* C1: an authorized /get_vehicle_status request that succeeds on a fresh
\* record with range > 0 reports exactly that range, and leaves the cache
\* equal to {battery, range, model} of that record, whatever it held before.
C1_PositiveRangeReportedAndCached ==
    [][(StatusStep /\ resp'.code = 200
          /\ Positive(vehicles'[Target].ev_driving_range))
       => /\ resp'.body.range_miles = vehicles'[Target].ev_driving_range
          /\ last_valid_status' =
                [battery_percentage |-> vehicles'[Target].ev_battery_percentage,
                 range_miles |-> vehicles'[Target].ev_driving_range,
                 model |-> Some(vehicles'[Target].model)]]_vars

\* a positive reading replaced a cache that held another vehicle state
C1_Witness ==
    /\ StatusDone
    /\ resp.code = 200
    /\ vehicles[Target].ev_driving_range = Some(2)
    /\ last_valid_status.range_miles = Some(2)
    /\ last_valid_status.battery_percentage = Some(79)

\* C2: when the fresh record has range 0 and the cache holds a positive
\* range R, the response reports R, the cache is unchanged, and battery,
\* model, charging flag and charge duration are those of the fresh record.
C2_ZeroRangeBackfilled ==
    [][(StatusStep /\ vehicles'[Target].ev_driving_range = Some(0)
          /\ Positive(last_valid_status.range_miles))
       => /\ resp'.code = 200
          /\ resp'.body.range_miles = last_valid_status.range_miles
          /\ last_valid_status' = last_valid_status
          /\ resp'.body.battery_percentage = vehicles'[Target].ev_battery_percentage
          /\ resp'.body.model = vehicles'[Target].model
          /\ resp'.body.charging = vehicles'[Target].ev_battery_is_charging
          /\ resp'.body.charge_minutes =
                vehicles'[Target].ev_estimated_current_charge_duration]_vars

\* range backfilled while the fresh battery and model differ from the cached
C2_Witness ==
    /\ StatusDone
    /\ resp.code = 200
    /\ vehicles[Target].ev_driving_range = Some(0)
    /\ resp.body.range_miles = Some(1)
    /\ last_valid_status.battery_percentage # resp.body.battery_percentage
    /\ last_valid_status.model # Some(resp.body.model)

\* C3: with the cache still empty and a fresh record of range 0, the
\* request succeeds with a null range (not 0, not an error) and the other
\* fields of the fresh record.
C3_ZeroRangeEmptyCacheIsNull ==
    [][(StatusStep /\ vehicles'[Target].ev_driving_range = Some(0)
          /\ last_valid_status.range_miles = None)
       => /\ resp'.code = 200
          /\ resp'.body.range_miles = None
          /\ resp'.body.battery_percentage = vehicles'[Target].ev_battery_percentage
          /\ resp'.body.model = vehicles'[Target].model
          /\ resp'.body.charging = vehicles'[Target].ev_battery_is_charging
          /\ resp'.body.charge_minutes =
                vehicles'[Target].ev_estimated_current_charge_duration]_vars

C3_Witness ==
    /\ StatusDone
    /\ resp.code = 200
    /\ vehicles[Target].ev_driving_range = Some(0)
    /\ last_valid_status.range_miles = None
    /\ resp.body.range_miles = None

\* C4: a request on any route that can reach the upstream service or the
\* vehicle state, whose Authorization header is missing or wrong, is
\* answered 403 and makes no upstream call and no change to the snapshot or
\* the cache.
C4_UnauthorizedTouchesNothing ==
    [][(pc = "serving" /\ pc' = "responding" /\ request'.route \in Routes
          /\ request'.header # SECRET_KEY)
       => /\ resp'.code = 403
          /\ calls' = <<>>
          /\ vehicles' = vehicles
          /\ last_valid_status' = last_valid_status]_vars

\* a request with a wrong header made /debug_vehicle force a refresh
C4_Witness ==
    /\ pc = "responding"
    /\ request = [route |-> "/debug_vehicle", header |-> Some("wrong")]
    /\ resp.code = 200
    /\ calls # <<>>
    /\ calls[1].op = "check_and_force_update_vehicles"

\* C5: every vehicle operation a request handler sends upstream (a refresh
\* of a snapshot that holds vehicles, a command) is sent with a valid,
\* non-expired token.
C5_ValidTokenBeforeOperation ==
    (pc = "responding" /\ order # <<>>)
    => \A i \in DOMAIN calls : calls[i].token = "valid"

\* C6: an authorized /battery_status or /get_vehicle_status request whose
\* refresh returned and whose target vehicle is not in the snapshot is
\* answered 404.
C6_MissingVehicleIs404 ==
    (/\ pc = "responding"
     /\ request.route \in {"/battery_status", "/get_vehicle_status"}
     /\ request.header = SECRET_KEY
     /\ calls[1].ok
     /\ Target \notin Keys)
    => resp.code = 404

\* C7: a failure raised while a request is handled (a failed refresh or
\* command, a missing vehicle record) is answered 500 with the failure's
\* text, and the process keeps serving.
C7_FailuresAnswered500 ==
    [][pc = "serving"
       => /\ pc' \in {"serving", "responding"}
          /\ error' = None
          /\ \A i \in DOMAIN calls' :
                ~calls'[i].ok
                => resp' = [code |-> 500, body |-> [error |-> calls'[i].err]]
          /\ (/\ request'.route = "/get_vehicle_status"
              /\ request'.header = SECRET_KEY
              /\ calls'[1].ok
              /\ Target \notin Keys)
             => resp' = [code |-> 500, body |-> [error |-> KeyErrorText(Target)]]]_vars

\* an authentication error at runtime, reported
C7_Witness ==
    /\ pc = "responding"
    /\ calls # <<>>
    /\ ~calls[Len(calls)].ok
    /\ calls[Len(calls)].err = "AuthenticationError"
    /\ resp.code = 500

\* C8: a request whose refresh fails leaves the held snapshot and the cache
\* as they were before the request.
C8_FailedRefreshChangesNothing ==
    [][(pc = "serving" /\ pc' = "responding" /\ calls' # <<>> /\ ~calls'[1].ok)
       => /\ vehicles' = vehicles
          /\ last_valid_status' = last_valid_status]_vars

\* C9: requests are served only after every startup step succeeded, and a
\* process that fails a startup step exits without having handled a request
\* and takes no further step.
C9_ServesOnlyAfterStartup ==
    [][/\ pc # "exited"
       /\ pc' \in {"run", "serving", "responding"}
          => /\ USERNAME # None /\ PASSWORD # None /\ PIN # None
             /\ token' # "none"
             /\ SECRET_KEY \notin {None, Some("")}
             /\ VEHICLE_ID' \notin {None, Some("")}
             /\ error' = None
       /\ pc' = "serving"
          => \/ pc \in {"serving", "responding"}
             \/ /\ pc = "run"
                /\ Len(calls) = 2
                /\ calls[1].op = "check_and_refresh_token" /\ calls[1].ok
                /\ calls[2].op = "update_all_vehicles_with_cached_state"
                /\ calls[2].ok
       /\ pc' = "responding" => pc = "serving"
       /\ (\E i \in DOMAIN calls' : ~calls'[i].ok) /\ pc \notin {"serving"}
          => pc' = "exited"
       /\ pc' = "exited"
          => /\ pc \in {"credentials", "connect", "secret", "vehicle_id"}
             /\ request' = NoRequest
             /\ resp' = NoResponse
             /\ error' # None]_vars

\* the server is up on a target vehicle it picked from the snapshot
C9_Witness ==
    /\ pc = "serving"
    /\ token = "valid"
    /\ VEHICLE_ID = Some("v2")

\* C10: with a username, password or pin absent or empty, startup fails
\* with the configuration error before any upstream call.
C10_IncompleteCredentialsFailFirst ==
    (\E c \in {USERNAME, PASSWORD, PIN} : c \in {None, Some("")})
    => /\ calls = <<>>
       /\ pc \in {"credentials", "exited"}
       /\ pc = "exited"
          => error = Some("ValueError: Missing credentials! Check your environment variables.")

\* C11: the startup step that resolves the target vehicle: with no vehicle
\* id configured and an empty snapshot, startup fails with the "no vehicles"
\* configuration error; with no id configured and vehicles in the snapshot,
\* the target is the first id in the snapshot's order; a configured id is
\* kept as given, whether or not the snapshot holds it.
C11_TargetResolvedAtStartup ==
    [][pc = "vehicle_id"
       => IF VEHICLE_ID \in {None, Some("")}
          THEN IF order = <<>>
               THEN /\ pc' = "exited"
                    /\ error' = Some("ValueError: No vehicles found in the account.")
               ELSE /\ pc' = "run"
                    /\ VEHICLE_ID' = Some(order[1])
          ELSE /\ pc' = "run"
               /\ VEHICLE_ID' = VEHICLE_ID]_vars

\* no id was configured and the first of two vehicles was selected
C11_Witness ==
    /\ pc = "run"
    /\ order = <<"v2", "v1">>
    /\ VEHICLE_ID = Some("v2")

\* the cache a positive reading of this record leaves
CacheOf(vehicle) ==
    [battery_percentage |-> vehicle.ev_battery_percentage,
     range_miles |-> vehicle.ev_driving_range,
     model |-> Some(vehicle.model)]

\* C12: reconciling the same positive-range record twice in a row gives the
\* same payload both times and the same cache after the second call as after
\* the first: reconciling the record of a successful request once more, from
\* the cache that request left, reproduces its payload and its cache; and a
\* request that reads a positive-range record while the cache already holds
\* that record's reading leaves the cache as it was.
C12_ReconcileIdempotent ==
    [][(StatusStep /\ resp'.code = 200
          /\ Positive(vehicles'[Target].ev_driving_range))
       => /\ CacheAfter(vehicles'[Target], last_valid_status') = last_valid_status'
          /\ StatusPayload(vehicles'[Target],
                           CacheAfter(vehicles'[Target], last_valid_status'))
                = resp'.body
          /\ last_valid_status = CacheOf(vehicles'[Target])
             => last_valid_status' = last_valid_status]_vars

\* the second of two requests: the record read is the record held, and the
\* cache already holds its reading
C12_Witness ==
    /\ StatusDone
    /\ resp.code = 200
    /\ vehicles[Target].ev_driving_range = Some(1)
    /\ vehicles[Target].ev_battery_percentage = Some(79)
    /\ last_valid_status = CacheOf(vehicles[Target])
    /\ resp.body.range_miles = Some(1)

\* C13: when the fresh record's range is negative or absent, the response
\* reports that range as it is (a negative number, or null), nothing is
\* substituted for it and the cache is not written; only a range of
\* exactly 0 is replaced.
C13_OnlyZeroIsSubstituted ==
    [][StatusStep
       => /\ vehicles'[Target].ev_driving_range # Some(0)
             => /\ resp'.code = 200
                /\ resp'.body.range_miles = vehicles'[Target].ev_driving_range
          /\ ~Positive(vehicles'[Target].ev_driving_range)
             => last_valid_status' = last_valid_status]_vars

\* an absent range reported as null although the cache holds a range
C13_Witness ==
    /\ StatusDone
    /\ resp.code = 200
    /\ vehicles[Target].ev_driving_range = None
    /\ resp.body.range_miles = None
    /\ last_valid_status.range_miles = Some(2)

\* C14: the cache is empty from process start until the first positive-range
\* reading, which populates it; every later positive-range reading
\* overwrites it; and once populated it is never empty again, whatever
\* requests follow (failed, unauthorized and zero-range ones included).
C14_CachePopulatedOnceForAll ==
    [][/\ pc \notin {"serving", "responding"}
          => last_valid_status = EmptyStatus /\ last_valid_status' = EmptyStatus
       /\ (last_valid_status = EmptyStatus /\ last_valid_status' # EmptyStatus)
          => StatusStep /\ Positive(vehicles'[Target].ev_driving_range)
       /\ (StatusStep /\ resp'.code = 200
             /\ Positive(vehicles'[Target].ev_driving_range))
          => last_valid_status' = CacheOf(vehicles'[Target])
       /\ last_valid_status # EmptyStatus
          => /\ last_valid_status' # EmptyStatus
             /\ last_valid_status'.range_miles # None
             /\ last_valid_status'.battery_percentage # None
             /\ last_valid_status'.model # None]_vars

\* a populated cache outlived a status request whose refresh failed
C14_Witness ==
    /\ pc = "responding"
    /\ request.route = "/get_vehicle_status"
    /\ request.header = SECRET_KEY
    /\ ~calls[1].ok
    /\ resp.code = 500
    /\ last_valid_status.range_miles = Some(2)

\* C15: a step changes the cache only if it handles an authorized
\* /get_vehicle_status request whose fresh range is > 0; every other step
\* (other routes, unauthorized or failed requests, readings with a zero,
\* negative or absent range, startup) leaves it as it was.  The cache is
\* read only by a status request whose fresh range is 0: with any other
\* range the payload is the one an empty cache would have given.
C15_CacheWrittenOnlyByPositiveStatus ==
    [][/\ last_valid_status' # last_valid_status
          => /\ StatusStep
             /\ resp'.code = 200
             /\ Positive(vehicles'[Target].ev_driving_range)
       /\ (StatusStep /\ vehicles'[Target].ev_driving_range # Some(0))
          => resp'.body = StatusPayload(vehicles'[Target],
                                        CacheAfter(vehicles'[Target], EmptyStatus))
       /\ (StatusStep /\ vehicles'[Target].ev_driving_range = Some(0))
          => resp'.body.range_miles = last_valid_status.range_miles]_vars

\* another route answered from a fresh record and left the cache alone
C15_Witness ==
    /\ pc = "responding"
    /\ request = [route |-> "/battery_status", header |-> SECRET_KEY]
    /\ resp.code = 200
    /\ Target \in Keys
    /\ vehicles[Target].ev_driving_range = Some(2)
    /\ last_valid_status.range_miles = Some(1)

\* lines 137, 159, 181, 203: the upstream operation of each command route
CommandOf(route) ==
    CASE route = "/start_climate" -> "start_climate"
      [] route = "/stop_climate" -> "stop_climate"
      [] route = "/unlock_car" -> "unlock"
      [] route = "/lock_car" -> "lock"

\* C16: an authorized command request (start climate, stop climate, lock,
\* unlock) makes exactly one refresh call and then, only if the refresh
\* succeeded, exactly one command call, the one of its route; after a failed
\* refresh or a failed command nothing is called again.
C16_OneRefreshThenOneCommand ==
    [][(/\ pc = "serving" /\ pc' = "responding"
        /\ request'.route \in {"/start_climate", "/stop_climate",
                               "/unlock_car", "/lock_car"}
        /\ request'.header = SECRET_KEY)
       => /\ Len(calls') \in {1, 2}
          /\ calls'[1].op = "update_all_vehicles_with_cached_state"
          /\ Len(calls') = 1 <=> ~calls'[1].ok
          /\ Len(calls') = 2 => calls'[2].op = CommandOf(request'.route)
          /\ ~calls'[Len(calls')].ok => resp'.code = 500]_vars

\* a lock command failed after its refresh and was not sent again
C16_Witness ==
    /\ pc = "responding"
    /\ request = [route |-> "/lock_car", header |-> SECRET_KEY]
    /\ Len(calls) = 2
    /\ calls[1].ok
    /\ calls[2].op = "lock"
    /\ ~calls[2].ok
    /\ resp.code = 500

\* C17: every authorized /get_vehicle_status request makes the forced
\* (zero-interval) refresh before it reads the target record, so what it
\* reports and caches is the record as that refresh left it; when the
\* refresh fails, no record is read or reconciled: the answer is the
\* failure and the cache is untouched.
C17_StatusReadsAfterForcedRefresh ==
    [][(/\ pc = "serving" /\ pc' = "responding"
        /\ request'.route = "/get_vehicle_status"
        /\ request'.header = SECRET_KEY)
       => /\ Len(calls') = 1
          /\ calls'[1].op = "check_and_force_update_vehicles"
          /\ ~calls'[1].ok
             => /\ resp' = [code |-> 500, body |-> [error |-> calls'[1].err]]
                /\ last_valid_status' = last_valid_status
          /\ (calls'[1].ok /\ Target \in Keys)
             => /\ resp'.code = 200
                /\ resp'.body = StatusPayload(vehicles'[Target], last_valid_status')
                /\ last_valid_status' =
                      CacheAfter(vehicles'[Target], last_valid_status)]_vars

\* the refresh brought a reading that the response and the cache carry
C17_Witness ==
    /\ StatusDone
    /\ resp.code = 200
    /\ calls[1].op = "check_and_force_update_vehicles"
    /\ vehicles[Target].ev_battery_percentage = Some(79)
    /\ vehicles[Target].ev_driving_range = Some(1)
    /\ resp.body.battery_percentage = Some(79)
    /\ last_valid_status.battery_percentage = Some(79)

SubstitutedFor(a, b) ==
    /\ get_vehicle_status
    /\ resp'.code = 200
    /\ vehicles'[a].ev_driving_range = None
    /\ vehicles'[b].ev_driving_range = Some(0)
    /\ resp'.body.range_miles = last_valid_status.range_miles

\* C19 (as claimed): in an account with two or more vehicles, a positive
\* range read from one vehicle can later be returned as the substituted
\* range for a different vehicle whose own reading is 0: whenever the idle
\* server's cache holds the positive reading of one vehicle, a status
\* request can follow that substitutes it for the zero reading of another.
C19_OtherVehicleCanBeMasked ==
    (/\ pc = "serving"
     /\ token = "valid"
     /\ Len(order) >= 2
     /\ \E a \in Keys : /\ Positive(vehicles[a].ev_driving_range)
                        /\ last_valid_status = CacheOf(vehicles[a]))
    => \E a \in Keys, b \in Keys :
          /\ a # b
          /\ last_valid_status = CacheOf(vehicles[a])
          /\ ENABLED SubstitutedFor(a, b)

\* C19 (amended): the cache is written from, and substituted into, the
\* record of the one target vehicle fixed at startup, also in an account
\* with two or more vehicles: a status response never carries another
\* vehicle's reading, and a substituted range is an earlier positive
\* reading of the target itself.
C19_CacheHoldsTargetOnly ==
    [][(/\ pc = "serving" /\ pc' = "responding"
        /\ Len(order) >= 2
        /\ request'.route = "/get_vehicle_status"
        /\ resp'.code = 200)
       => /\ last_valid_status' # last_valid_status
             => last_valid_status' = CacheOf(vehicles'[VEHICLE_ID[1]])
          /\ resp'.body.range_miles # vehicles'[VEHICLE_ID[1]].ev_driving_range
             => /\ vehicles'[VEHICLE_ID[1]].ev_driving_range = Some(0)
                /\ resp'.body.range_miles = last_valid_status.range_miles
          /\ resp'.body.battery_percentage =
                vehicles'[VEHICLE_ID[1]].ev_battery_percentage]_vars

\* the target reads 0 and is answered with its own earlier range while the
\* other vehicle of the account holds a different positive reading
C19_Witness ==
    /\ StatusDone
    /\ resp.code = 200
    /\ Len(order) = 2
    /\ vehicles[Target].ev_driving_range = Some(0)
    /\ \E other \in Keys \ {Target} : vehicles[other].ev_driving_range = Some(2)
    /\ resp.body.range_miles = Some(1)
    /\ last_valid_status.range_miles = Some(1)

\* C20: with several /get_vehicle_status handlers running concurrently on
\* the shared record and the shared cache: every cache write stores a
\* battery, range and model that one and the same state of the record held
\* when the handler read from it; no success payload reports a range of
\* exactly 0; and the cached range is always absent or strictly positive.
C20_ConcurrentHandlersConsistent ==
    [][\A t \in Threads :
          /\ (/\ handlers[t].at = "cache"
              /\ handlers'[t].at = "substitute"
              /\ IsValidRange(handlers[t].range_miles))
             => \E s \in handlers[t].read_from : last_valid_status' = CacheOf(s)
          /\ handlers'[t].resp.code = 200
             => handlers'[t].resp.body.range_miles # Some(0)
          /\ \/ last_valid_status'.range_miles = None
             \/ Positive(last_valid_status'.range_miles)]_vars

\* the cache holds a battery, range and model that no reading of the
\* vehicle had together
C20_Witness ==
    /\ last_valid_status # EmptyStatus
    /\ \A s \in ConcurrentReadings : last_valid_status # CacheOf(s)
    /\ \E t \in Threads : handlers[t].at = "substitute"

====
